---- MODULE Spec2Model ----
(***************************************************************************)
(* Model of the static-map snapshot generator of the PowerScan backend     *)
(* (pdf_generator.py): generate_pdf decides whether a map is requested,    *)
(* generate_static_map_base64 projects the coordinate, sizes the tile      *)
(* grid, fetches the tiles one by one, crops, draws the pin and encodes,   *)
(* and generate_html_report embeds the result or a textual fallback.       *)
(* Three functions are also specified on their own, each with its own      *)
(* initial states: _draw_pin_marker (SpecPin), _lat_lon_to_tile on the     *)
(* centers of tiles (SpecProjector) and the POST /api/thermal endpoint of  *)
(* main.py with process_thermal_upload of thermal.py (SpecThermal).        *)
(* The upload endpoint of thermal_sdk.py is specified step by step, with   *)
(* its temp file (SpecSdk).                                                *)
(*                                                                         *)
(* Numbers.  Python floats are modelled by exact rationals [num, den].     *)
(* A longitude is an integer lonU standing for lonU * 360 / LonSteps       *)
(* degrees.  A latitude is an integer latG standing for the latitude whose *)
(* Mercator ordinate ln(tan(lat) + sec(lat)) / pi equals latG / MercSteps: *)
(* latG = 0 is the equator (the float 0.0), |latG| = MercSteps is the edge *)
(* of the Mercator square (about 85.0511 degrees) and |latG| > MercSteps a *)
(* latitude between that edge and the pole.  The tag "float_gt90" is a     *)
(* latitude beyond the pole, where tan + sec is negative and math.log      *)
(* raises ValueError.  The arithmetic is exact: it agrees with the float   *)
(* arithmetic of the code except within one rounding error of the edge     *)
(* |latG| = MercSteps itself.                                              *)
(***************************************************************************)
EXTENDS Integers, Sequences, FiniteSets, TLC

\* ---------------------------------------------------------------- bounds
LonSteps == 6
MaxLonU == 5
MercSteps == 3
MaxLatG == 4
MaxZoom == 1
MaxMeasureU == 1
MaxPinSize == 40
MaxProbeZoom == 3
ProbeSamples == 4
MaxTempU == 2
PixelCount == 2

\* ------------------------------------------------------ program constants
tile_size == 256
DefaultZoom == 17
DefaultWidth == 400
DefaultHeight == 400
PinSize == 36
DefaultMinTemp == 20
DefaultMaxTemp == 45

Widths == {200, DefaultWidth}
Heights == {200}

\* ------------------------------------------------------------------ state
VARIABLES caller, latitude, longitude, zoom, width, height, pc,
          map_called, center, tiles_x, tiles_y, start_tile_x, start_tile_y,
          composite, tx, ty, inflight, requests, failed,
          pixel_x, pixel_y, box, cropped, marker, encoded,
          map_img_b64, escaped, aborted_at, map_img,
          composite_size, pastes, timed_out, pin,
          pin_arg, probe, upload, response,
          temp_path, thermal_np, pending

vars == <<caller, latitude, longitude, zoom, width, height, pc,
          map_called, center, tiles_x, tiles_y, start_tile_x, start_tile_y,
          composite, tx, ty, inflight, requests, failed,
          pixel_x, pixel_y, box, cropped, marker, encoded,
          map_img_b64, escaped, aborted_at, map_img,
          composite_size, pastes, timed_out, pin,
          pin_arg, probe, upload, response,
          temp_path, thermal_np, pending>>

\* ------------------------------------------------------------ value model
None == [tag |-> "None", v |-> 0]
Float(i) == [tag |-> "float", v |-> i]
BeyondPole == [tag |-> "float_gt90", v |-> 1]

\* Python truthiness of an Optional[float]: None and 0.0 are falsy.
Truthy(f) == f.tag # "None" /\ f.v # 0

Provided(f) == f.tag # "None"

ArgLats == {Float(i) : i \in -MaxLatG..MaxLatG} \cup {BeyondPole}
ArgLons == {Float(i) : i \in -MaxLonU..MaxLonU}
MeasureLats == {None, BeyondPole} \cup {Float(i) : i \in -MaxMeasureU..MaxMeasureU}
MeasureLons == {None} \cup {Float(i) : i \in -MaxMeasureU..MaxMeasureU}

NoImage == [tag |-> "None", w |-> 0, h |-> 0, cx |-> 0, cy |-> 0]
DataUri(w, h, cx, cy) == [tag |-> "uri", w |-> w, h |-> h, cx |-> cx, cy |-> cy]

\* ------------------------------------------------------------- arithmetic
Pow2(k) == 2 ^ k

\* Python int() on a float: truncation toward zero.
IntTrunc(num, den) == IF num >= 0 THEN num \div den ELSE -((-num) \div den)

\* math.ceil(a / b) for positive integers a, b.
Ceil(a, b) == (a + b - 1) \div b

\* ---------------------------------------------------- _lat_lon_to_tile
LogDomainError(lat) == lat.tag = "float_gt90"

\* The two formulas of _lat_lon_to_tile on exact fractions: the longitude is
\* lonNum / lonDen of a full turn, the Mercator ordinate of the latitude is
\* gNum / gDen.   x = (lon + 180) / 360 * n,   y = (1 - g) / 2 * n.
\* Faulty variant: the ordinate is not flipped (y grows northwards).
tile_xy_no_flip(lonNum, lonDen, gNum, gDen, z) ==
    [x |-> [num |-> (2 * lonNum + lonDen) * Pow2(z), den |-> 2 * lonDen],
     y |-> [num |-> (gDen + gNum) * Pow2(z), den |-> 2 * gDen]]

tile_xy(lonNum, lonDen, gNum, gDen, z) ==
    [x |-> [num |-> (2 * lonNum + lonDen) * Pow2(z), den |-> 2 * lonDen],
     y |-> [num |-> (gDen - gNum) * Pow2(z), den |-> 2 * gDen]]

lat_lon_to_tile(lat, lon, z) == tile_xy(lon.v, LonSteps, lat.v, MercSteps, z)

\* --------------------------------------------------------- grid sizing
tiles_needed(dim) == Ceil(dim, tile_size) + 1

start_tile(ctr, tiles) == IntTrunc(ctr.num, ctr.den) - tiles \div 2

wrap_tile_x(t, z) == t % Pow2(z)

\* Faulty variant: off-by-one in the pole test, row n is requested.
row_skipped_off_by_one(t, z) == t < 0 \/ t > Pow2(z)

row_skipped(t, z) == t < 0 \/ t >= Pow2(z)

\* Faulty variant: the fractional part of the center tile is dropped.
pixel_pos_whole_tile(ctr, start) ==
    (IntTrunc(ctr.num, ctr.den) - start) * tile_size

pixel_pos(ctr, start) ==
    IntTrunc((ctr.num - start * ctr.den) * tile_size, ctr.den)

crop_box(px, py, w, h) ==
    [left |-> px - w \div 2, top |-> py - h \div 2,
     right |-> (px - w \div 2) + w, bottom |-> (py - h \div 2) + h]

\* Faulty variant: the crop is clipped to the part of the box inside the canvas.
crop_size_clipped(b) ==
    [w |-> (IF b.right < tiles_x * tile_size THEN b.right ELSE tiles_x * tile_size)
             - (IF b.left > 0 THEN b.left ELSE 0),
     h |-> (IF b.bottom < tiles_y * tile_size THEN b.bottom ELSE tiles_y * tile_size)
             - (IF b.top > 0 THEN b.top ELSE 0)]

\* PIL Image.crop: the result has the size of the box; the part of the box
\* outside the image is padded, it is not an error.
crop_size(b) == [w |-> b.right - b.left, h |-> b.bottom - b.top]

\* The ways one tile fetch fails: client.get raises (a network error, or the
\* client's 15 s timeout), the status is not 200, Image.open cannot decode
\* the body.
FailKinds == {"network", "timeout", "status", "decode"}

\* Faulty variant: the inner handler is missing, a failed fetch raises to the outer one.
tile_except_raise(kind) == "raise"

\* Faulty variant: the inner handler lets a timeout through to the outer one.
tile_except_timeout_escapes(kind) == IF kind = "timeout" THEN "raise" ELSE "pass"

\* The inner  try: ... except: pass  around one tile: a non-200 status raises
\* nothing, the two other failures raise and the bare except swallows them.
tile_except(kind) == "pass"

\* Faulty variant: the outer handler re-raises instead of returning None.
except_handler_reraise(e) == [ret |-> NoImage, escaped |-> e]

\* except Exception (outer handler): print and return None.
except_handler(e) == [ret |-> NoImage, escaped |-> "none"]

\* generate_pdf: the test deciding whether the map is generated.
map_wanted(lat, lon) == Truthy(lat) /\ Truthy(lon)

\* generate_html_report: the map cell of the template.
map_cell(b64) == IF b64.tag # "None" THEN "img" ELSE "Map unavailable"

\* ------------------------------------------------------ statement order
\* Faulty variant: the marker stage is entered straight from the composite,
\* the crop is not followed by the marker.
stage_after_no_mark(s) ==
    CASE s = "Requested" -> "Projected"
      [] s = "Projected" -> "Composited"
      [] s = "Composited" -> "Marked"
      [] s = "Cropped" -> "Marked"
      [] s = "Marked" -> "Encoded"

\* The stage reached when the statements of stage s have run: the body of
\* generate_static_map_base64 is straight-line code.
stage_after(s) ==
    CASE s = "Requested" -> "Projected"
      [] s = "Projected" -> "Composited"
      [] s = "Composited" -> "Cropped"
      [] s = "Cropped" -> "Marked"
      [] s = "Marked" -> "Encoded"

\* ---------------------------------------------------------- tile loop
\* Faulty variant: the request is started as a task and not awaited.
request_not_awaited(req) == FALSE

\* resp = await client.get(...): the loop is suspended until the request
\* has resolved.
request_awaited(req) == TRUE

\* Faulty variant: tiles are pasted in arrival order.
paste_offset_arrival(cx, cy) ==
    <<(Cardinality(pastes) \div tiles_y) * tile_size,
      (Cardinality(pastes) % tiles_y) * tile_size>>

\* composite.paste(tile_img, (tx * tile_size, ty * tile_size))
paste_offset(cx, cy) == <<cx * tile_size, cy * tile_size>>

\* Faulty variant: a failed tile is painted over with an empty tile.
blank_failed_tile(comp, cell) == [comp EXCEPT ![cell] = "blank"]

\* status_code != 200, or  except: pass : nothing is pasted for the cell.
skip_failed_tile(comp, cell) == comp

\* ---------------------------------------------------- _draw_pin_marker
\* Faulty variant: the dot is placed from the top of the white disk.
pin_shapes_dot_off(cx, cy, size) ==
    LET pin_top == cy - size
        pin_w == size \div 2
        inner_r == size \div 5
        dot_r == size \div 8
    IN [pin_w |-> pin_w, inner_r |-> inner_r, dot_r |-> dot_r,
        head_h |-> (size * 2) \div 3,
        shadow |-> [x0 |-> cx - pin_w + 2, y0 |-> pin_top + 2,
                    x1 |-> cx + pin_w + 2, y1 |-> pin_top + (size * 2) \div 3 + 2],
        head |-> [x0 |-> cx - pin_w, y0 |-> pin_top,
                  x1 |-> cx + pin_w, y1 |-> pin_top + (size * 2) \div 3],
        point |-> <<<<cx - pin_w \div 2, pin_top + size \div 3>>,
                    <<cx, cy>>,
                    <<cx + pin_w \div 2, pin_top + size \div 3>>>>,
        disk |-> [x0 |-> cx - inner_r, y0 |-> pin_top + size \div 6,
                  x1 |-> cx + inner_r, y1 |-> pin_top + size \div 6 + inner_r * 2],
        dot |-> [x0 |-> cx - dot_r, y0 |-> pin_top + size \div 6,
                 x1 |-> cx + dot_r, y1 |-> pin_top + size \div 6 + dot_r * 2]]

\* The five shapes _draw_pin_marker draws, by their bounding boxes (the
\* triangle by its vertices), and the lengths they are derived from.
pin_shapes(cx, cy, size) ==
    LET pin_top == cy - size
        pin_w == size \div 2
        inner_r == size \div 5
        dot_r == size \div 8
    IN [pin_w |-> pin_w, inner_r |-> inner_r, dot_r |-> dot_r,
        head_h |-> (size * 2) \div 3,
        shadow |-> [x0 |-> cx - pin_w + 2, y0 |-> pin_top + 2,
                    x1 |-> cx + pin_w + 2, y1 |-> pin_top + (size * 2) \div 3 + 2],
        head |-> [x0 |-> cx - pin_w, y0 |-> pin_top,
                  x1 |-> cx + pin_w, y1 |-> pin_top + (size * 2) \div 3],
        point |-> <<<<cx - pin_w \div 2, pin_top + size \div 3>>,
                    <<cx, cy>>,
                    <<cx + pin_w \div 2, pin_top + size \div 3>>>>,
        disk |-> [x0 |-> cx - inner_r, y0 |-> pin_top + size \div 6,
                  x1 |-> cx + inner_r, y1 |-> pin_top + size \div 6 + inner_r * 2],
        dot |-> [x0 |-> cx - dot_r, y0 |-> pin_top + size \div 6 + (inner_r - dot_r),
                 x1 |-> cx + dot_r, y1 |-> pin_top + size \div 6 + (inner_r + dot_r)]]

inputs == <<caller, latitude, longitude, zoom, width, height>>
grid == <<tiles_x, tiles_y, start_tile_x, start_tile_y>>
loop == <<composite, tx, ty, inflight, requests, failed, composite_size,
          pastes, timed_out>>
tail == <<pixel_x, pixel_y, box, cropped, marker, encoded, pin>>
\* arguments and results of the functions that are also called on their own
standalone == <<pin_arg, probe, upload, response, temp_path, thermal_np,
                pending>>

Zero == [num |-> 0, den |-> 1]
NoBox == [left |-> 0, top |-> 0, right |-> 0, bottom |-> 0]
NoSize == [w |-> 0, h |-> 0]
NoMarker == [drawn |-> FALSE, cx |-> 0, cy |-> 0, size |-> 0]
NoPin == pin_shapes(0, 0, 0)

NoPinArg == [cx |-> 0, cy |-> 0, size |-> 0]
NoProbe == [x |-> 0, y |-> 0, z |-> 0, k |-> 0]
NoUpload == [ext |-> "", content |-> "", min_temp |-> None, max_temp |-> None]
NoResponse == [status |-> 0, detail |-> "none", scale |-> <<>>]

\* upload_image of thermal_sdk.py has not run: no temp file, no array, no
\* exception on its way out
SdkIdle == temp_path = "absent" /\ thermal_np = <<>> /\ pending = "none"

\* nothing of generate_static_map_base64 has run
MapIdle ==
    /\ map_called = (caller = "direct")
    /\ center = [x |-> Zero, y |-> Zero]
    /\ tiles_x = 0 /\ tiles_y = 0 /\ start_tile_x = 0 /\ start_tile_y = 0
    /\ composite = [c \in {} |-> "bg"]
    /\ composite_size = NoSize
    /\ tx = 0 /\ ty = 0
    /\ inflight = {}
    /\ requests = <<>>
    /\ failed = {}
    /\ pastes = {}
    /\ timed_out = FALSE
    /\ pixel_x = 0 /\ pixel_y = 0
    /\ box = NoBox
    /\ cropped = NoSize
    /\ marker = NoMarker
    /\ pin = NoPin
    /\ encoded = NoImage
    /\ map_img_b64 = NoImage
    /\ escaped = "none"
    /\ aborted_at = "none"
    /\ map_img = "unset"

Init ==
    /\ caller \in {"generate_pdf", "direct"}
    /\ latitude \in (IF caller = "generate_pdf" THEN MeasureLats ELSE ArgLats)
    /\ longitude \in (IF caller = "generate_pdf" THEN MeasureLons ELSE ArgLons)
    /\ zoom \in (IF caller = "generate_pdf" THEN {DefaultZoom} ELSE 0..MaxZoom)
    /\ width \in (IF caller = "generate_pdf" THEN {DefaultWidth} ELSE Widths)
    /\ height \in (IF caller = "generate_pdf" THEN {DefaultHeight} ELSE Heights)
    /\ pc = IF caller = "generate_pdf" THEN "generate_pdf" ELSE "Requested"
    /\ MapIdle
    /\ pin_arg = NoPinArg /\ probe = NoProbe
    /\ upload = NoUpload /\ response = NoResponse
    /\ SdkIdle

\* where control goes when generate_static_map_base64 returns
ReturnPc == IF caller = "generate_pdf" THEN "map_done" ELSE "Returned"

\* the try block's handler: an exception raised at stage pc
Abort(e) ==
    /\ map_img_b64' = except_handler(e).ret
    /\ escaped' = except_handler(e).escaped
    /\ aborted_at' = pc
    /\ pc' = IF except_handler(e).escaped = "none" THEN ReturnPc ELSE "Failed"

\* generate_pdf, the map part: call the generator or leave the map None.
GeneratePdfMap ==
    /\ pc = "generate_pdf"
    /\ IF map_wanted(latitude, longitude)
         THEN /\ map_called' = TRUE
              /\ pc' = "Requested"
         ELSE /\ map_called' = FALSE
              /\ pc' = "map_done"
    /\ UNCHANGED <<inputs, standalone, center, grid, loop, tail, map_img_b64, escaped,
                   aborted_at, map_img>>

\* center_x, center_y = _lat_lon_to_tile(lat, lon, zoom)
Project ==
    /\ pc = "Requested"
    /\ IF LogDomainError(latitude)
         THEN /\ Abort("ValueError")
              /\ UNCHANGED center
         ELSE /\ center' = lat_lon_to_tile(latitude, longitude, zoom)
              /\ pc' = stage_after("Requested")
              /\ UNCHANGED <<map_img_b64, escaped, aborted_at>>
    /\ UNCHANGED <<inputs, standalone, map_called, grid, loop, tail, map_img>>

\* tiles needed, starting tile indices, Image.new with the background fill
SizeGrid ==
    /\ pc = "Projected"
    /\ tiles_x' = tiles_needed(width)
    /\ tiles_y' = tiles_needed(height)
    /\ start_tile_x' = start_tile(center.x, tiles_needed(width))
    /\ start_tile_y' = start_tile(center.y, tiles_needed(height))
    /\ composite' = [c \in (0..(tiles_needed(width) - 1)) \X (0..(tiles_needed(height) - 1)) |-> "bg"]
    /\ composite_size' = [w |-> tiles_needed(width) * tile_size,
                          h |-> tiles_needed(height) * tile_size]
    /\ tx' = 0 /\ ty' = 0
    /\ pc' = "Fetching"
    /\ UNCHANGED <<inputs, standalone, map_called, center, inflight, requests, failed,
                   pastes, timed_out, tail, map_img_b64, escaped, aborted_at,
                   map_img>>

\* next iteration of  for tx in range(tiles_x): for ty in range(tiles_y)
Advance ==
    /\ IF ty + 1 < tiles_y
         THEN tx' = tx /\ ty' = ty + 1 /\ pc' = "Fetching"
         ELSE /\ tx' = tx + 1 /\ ty' = 0
              /\ pc' = IF tx + 1 < tiles_x THEN "Fetching" ELSE stage_after("Projected")

\* the loop runs only while no awaited request is pending
LoopRunning == pc = "Fetching" /\ \A r \in inflight : ~request_awaited(r)

\* if tile_y < 0 or tile_y >= n: continue
SkipTile ==
    /\ LoopRunning
    /\ row_skipped(start_tile_y + ty, zoom)
    /\ Advance
    /\ UNCHANGED <<inputs, standalone, map_called, center, grid, composite, inflight,
                   requests, failed, composite_size, pastes, timed_out, tail,
                   map_img_b64, escaped, aborted_at, map_img>>

\* resp = await client.get(url): the request goes out
IssueRequest ==
    /\ LoopRunning
    /\ ~row_skipped(start_tile_y + ty, zoom)
    /\ LET req == [z |-> zoom, x |-> wrap_tile_x(start_tile_x + tx, zoom),
                   y |-> start_tile_y + ty, tx |-> tx, ty |-> ty]
       IN /\ inflight' = inflight \cup {req}
          /\ requests' = Append(requests, req)
          /\ IF request_awaited(req) THEN UNCHANGED <<tx, ty, pc>> ELSE Advance
    /\ UNCHANGED <<inputs, standalone, map_called, center, grid, composite, failed,
                   composite_size, pastes, timed_out, tail, map_img_b64,
                   escaped, aborted_at, map_img>>

\* status 200 and a decodable body: paste at (tx * tile_size, ty * tile_size)
ResolveOk ==
    \E r \in inflight :
        /\ composite' = [composite EXCEPT ![<<r.tx, r.ty>>] = "tile"]
        /\ pastes' = pastes \cup {[off |-> paste_offset(r.tx, r.ty),
                                   tx |-> r.tx, ty |-> r.ty, x |-> r.x, y |-> r.y]}
        /\ inflight' = inflight \ {r}
        /\ IF request_awaited(r) THEN Advance ELSE UNCHANGED <<tx, ty, pc>>
        /\ UNCHANGED <<inputs, standalone, map_called, center, grid, requests, failed,
                       composite_size, timed_out, tail, map_img_b64, escaped,
                       aborted_at, map_img>>

\* network exception, timeout, non-200 status or undecodable body: nothing
\* is pasted and the loop goes on
ResolveFail ==
    \E r \in inflight :
        /\ failed' = failed \cup {<<r.tx, r.ty>>}
        /\ composite' = skip_failed_tile(composite, <<r.tx, r.ty>>)
        /\ inflight' = inflight \ {r}
        /\ \E kind \in FailKinds :
              /\ timed_out' = (timed_out \/ kind = "timeout")
              /\ IF kind # "status" /\ tile_except(kind) # "pass"
                   THEN /\ Abort("TileError")
                        /\ UNCHANGED <<tx, ty>>
                   ELSE /\ IF request_awaited(r) THEN Advance
                                                 ELSE UNCHANGED <<tx, ty, pc>>
                        /\ UNCHANGED <<map_img_b64, escaped, aborted_at>>
        /\ UNCHANGED <<inputs, standalone, map_called, center, grid, requests,
                       composite_size, pastes, tail, map_img>>

\* pixel position of the center, crop box, composite.crop
Crop ==
    /\ pc = "Composited"
    /\ pixel_x' = pixel_pos(center.x, start_tile_x)
    /\ pixel_y' = pixel_pos(center.y, start_tile_y)
    /\ box' = crop_box(pixel_pos(center.x, start_tile_x),
                       pixel_pos(center.y, start_tile_y), width, height)
    /\ cropped' = crop_size(crop_box(pixel_pos(center.x, start_tile_x),
                                     pixel_pos(center.y, start_tile_y), width, height))
    /\ pc' = stage_after("Composited")
    /\ UNCHANGED <<inputs, standalone, map_called, center, grid, loop, marker, encoded,
                   pin, map_img_b64, escaped, aborted_at, map_img>>

\* _draw_pin_marker(draw, width // 2, height // 2, color=pin_color, size=36)
Mark ==
    /\ pc = "Cropped"
    /\ marker' = [drawn |-> TRUE, cx |-> width \div 2, cy |-> height \div 2,
                  size |-> PinSize]
    /\ pin' = pin_shapes(width \div 2, height \div 2, PinSize)
    /\ pc' = stage_after("Cropped")
    /\ UNCHANGED <<inputs, standalone, map_called, center, grid, loop, pixel_x, pixel_y,
                   box, cropped, encoded, map_img_b64, escaped, aborted_at,
                   map_img>>

\* cropped.save(PNG), base64
Encode ==
    /\ pc = "Marked"
    /\ encoded' = DataUri(cropped.w, cropped.h, marker.cx, marker.cy)
    /\ pc' = stage_after("Marked")
    /\ UNCHANGED <<inputs, standalone, map_called, center, grid, loop, pixel_x, pixel_y,
                   box, cropped, marker, pin, map_img_b64, escaped, aborted_at,
                   map_img>>

\* return f"data:image/png;base64,{b64}"
Return ==
    /\ pc = "Encoded"
    /\ map_img_b64' = encoded
    /\ pc' = ReturnPc
    /\ UNCHANGED <<inputs, standalone, map_called, center, grid, loop, tail, escaped,
                   aborted_at, map_img>>

\* a Pillow call of the stage raises (Image.new, crop, ImageDraw, save)
LibraryRaises ==
    /\ pc \in {"Projected", "Composited", "Cropped", "Marked"}
    /\ Abort("Exception")
    /\ UNCHANGED <<inputs, standalone, map_called, center, grid, loop, tail, map_img>>

\* generate_html_report: the map image or the placeholder
GenerateHtmlReport ==
    /\ pc = "map_done"
    /\ map_img' = map_cell(map_img_b64)
    /\ pc' = "Done"
    /\ UNCHANGED <<inputs, standalone, map_called, center, grid, loop, tail, map_img_b64,
                   escaped, aborted_at>>

Next ==
    \/ GeneratePdfMap
    \/ Project
    \/ SizeGrid
    \/ SkipTile
    \/ IssueRequest
    \/ ResolveOk
    \/ ResolveFail
    \/ Crop
    \/ Mark
    \/ Encode
    \/ Return
    \/ LibraryRaises
    \/ GenerateHtmlReport

Spec == Init /\ [][Next]_vars

\* --------------------------------------- _draw_pin_marker called on its own
PinCenters == {0, 100, 200}

InitPin ==
    /\ caller = "draw_pin_marker"
    /\ pin_arg \in [cx : PinCenters, cy : PinCenters, size : 1..MaxPinSize]
    /\ pc = "draw_pin_marker"
    /\ latitude = None /\ longitude = None
    /\ zoom = 0 /\ width = 0 /\ height = 0
    /\ MapIdle
    /\ probe = NoProbe /\ upload = NoUpload /\ response = NoResponse
    /\ SdkIdle

\* the body of _draw_pin_marker(draw, cx, cy, color, size)
DrawPinMarker ==
    /\ pc = "draw_pin_marker"
    /\ pin' = pin_shapes(pin_arg.cx, pin_arg.cy, pin_arg.size)
    /\ pc' = "Drawn"
    /\ UNCHANGED <<inputs, standalone, map_called, center, grid, loop,
                   pixel_x, pixel_y, box, cropped, marker, encoded,
                   map_img_b64, escaped, aborted_at, map_img>>

NextPin == DrawPinMarker

SpecPin == InitPin /\ [][NextPin]_vars

\* ------------------------------------- _lat_lon_to_tile on centers of tiles
\* Tile (x, y) at zoom z is the set of points _lat_lon_to_tile sends into
\* [x, x + 1) x [y, y + 1): the longitudes from x / n - 1/2 to
\* (x + 1) / n - 1/2 of a turn, the Mercator ordinates from
\* 1 - 2 (y + 1) / n up to 1 - 2 y / n.  The center's longitude is the middle
\* of the first interval.  The center's latitude is the mean of the two edge
\* latitudes; its ordinate lies strictly between the two edge ordinates and
\* is drawn from the interior points k / ProbeSamples of that interval.
box_center(x, y, z, k) ==
    [lonNum |-> 2 * x + 1 - Pow2(z), lonDen |-> 2 * Pow2(z),
     gNum |-> (Pow2(z) - 2 * (y + 1)) * ProbeSamples + 2 * k,
     gDen |-> Pow2(z) * ProbeSamples]

Probes ==
    UNION {[x : 0..(Pow2(z) - 1), y : 0..(Pow2(z) - 1), z : {z},
            k : 1..(ProbeSamples - 1)] : z \in 0..MaxProbeZoom}

InitProjector ==
    /\ caller = "lat_lon_to_tile"
    /\ probe \in Probes
    /\ pc = "lat_lon_to_tile"
    /\ latitude = None /\ longitude = None
    /\ zoom = 0 /\ width = 0 /\ height = 0
    /\ MapIdle
    /\ pin_arg = NoPinArg /\ upload = NoUpload /\ response = NoResponse
    /\ SdkIdle

\* _lat_lon_to_tile(lat, lon, zoom) on the center of tile probe
ProjectCenter ==
    /\ pc = "lat_lon_to_tile"
    /\ LET c == box_center(probe.x, probe.y, probe.z, probe.k)
       IN center' = tile_xy(c.lonNum, c.lonDen, c.gNum, c.gDen, probe.z)
    /\ pc' = "TileComputed"
    /\ UNCHANGED <<inputs, standalone, map_called, grid, loop, tail,
                   map_img_b64, escaped, aborted_at, map_img>>

NextProjector == ProjectCenter

SpecProjector == InitProjector /\ [][NextProjector]_vars

\* ------------------------------------------------------ POST /api/thermal
\* The upload: the extension of file.filename as sent, the bytes read from
\* the file ("empty", a decodable "image", or undecodable "garbage") and the
\* two query parameters in degrees.
Exts == {".jpg", ".JPG", ".jpeg", ".png", ".gif", ""}
Contents == {"empty", "image", "garbage"}
MinTemps == {Float(DefaultMinTemp), Float(25)}
MaxTemps == {None, Float(DefaultMaxTemp), Float(60)}

\* str.lower() on the extensions above
Lower(e) == IF e = ".JPG" THEN ".jpg" ELSE e

\* file.filename.lower().endswith((".jpg", ".jpeg", ".png"))
supported_extension(e) == Lower(e) \in {".jpg", ".jpeg", ".png"}

\* the parameters process_thermal_upload declares, and the keywords the
\* endpoint passes besides the positional content
process_thermal_upload_params == {"content"}
call_keywords == {"min_temp", "max_temp"}

\* Python binds a call only if every keyword names a parameter; otherwise
\* the call raises TypeError before the body runs.
call_binds(keywords, params) == keywords \subseteq params

\* process_thermal_upload(content): PILImage.open raises on undecodable
\* bytes; otherwise estimate_temperature_from_image(tmp_path) scales with
\* its own defaults.
process_thermal_upload(content) ==
    IF content # "image"
      THEN [raised |-> "UnidentifiedImageError", scale |-> <<>>]
      ELSE [raised |-> "none",
            scale |-> <<Float(DefaultMinTemp), Float(DefaultMaxTemp)>>]

\* the endpoint from the extension test to the response
extract_estimated_thermal(u) ==
    IF ~supported_extension(u.ext)
      THEN [status |-> 400, detail |-> "Only JPG/JPEG/PNG files are supported",
            scale |-> <<>>]
    ELSE IF u.content = "empty"
      THEN [status |-> 400, detail |-> "Empty file uploaded", scale |-> <<>>]
    ELSE IF ~call_binds(call_keywords, process_thermal_upload_params)
      THEN [status |-> 500, detail |-> "TypeError", scale |-> <<>>]
    ELSE IF process_thermal_upload(u.content).raised # "none"
      THEN [status |-> 500, detail |-> process_thermal_upload(u.content).raised,
            scale |-> <<>>]
    ELSE [status |-> 200, detail |-> "estimated",
          scale |-> process_thermal_upload(u.content).scale]

InitThermal ==
    /\ caller = "api_thermal"
    /\ upload \in [ext : Exts, content : Contents, min_temp : MinTemps,
                    max_temp : MaxTemps]
    /\ response = NoResponse
    /\ pc = "api_thermal"
    /\ latitude = None /\ longitude = None
    /\ zoom = 0 /\ width = 0 /\ height = 0
    /\ MapIdle
    /\ pin_arg = NoPinArg /\ probe = NoProbe
    /\ SdkIdle

ExtractEstimatedThermal ==
    /\ pc = "api_thermal"
    /\ response' = extract_estimated_thermal(upload)
    /\ pc' = "Responded"
    /\ UNCHANGED <<inputs, pin_arg, probe, upload, temp_path, thermal_np,
                   pending, map_called, center, grid,
                   loop, tail, map_img_b64, escaped, aborted_at, map_img>>

NextThermal == ExtractEstimatedThermal

SpecThermal == InitThermal /\ [][NextThermal]_vars

\* ------------------------------------------- POST /api/thermal-sdk/upload
\* Temperatures are integers standing for thirds of a hundredth of a degree
\* (t / 300 degrees), so that round(x, 2) never meets a tie.
SdkTemps == -MaxTempU..MaxTempU
SdkExts == {".jpg", ".JPG", ".jpeg", ".png", ""}
SdkClamps == {None} \cup {Float(t) : t \in SdkTemps}

\* The upload: the extension of file.filename, what the bytes are ("empty",
\* a "flir" image the extractor reads, or "garbage" it raises on), the array
\* get_thermal_np would return for them, and the two query parameters.
SdkUploads ==
    {u \in [ext : SdkExts, content : {"empty", "flir", "garbage"},
            pixels : [1..PixelCount -> SdkTemps] \cup {<<>>},
            min_temp : SdkClamps, max_temp : SdkClamps] :
        (u.content = "flir") <=> (u.pixels # <<>>)}

\* file.filename.lower().endswith((".jpg", ".jpeg"))
sdk_supported_extension(e) == Lower(e) \in {".jpg", ".jpeg"}

\* np.clip(a, a_min=lo, a_max=None) and np.clip(a, a_min=None, a_max=hi)
clip_min(a, lo) == [i \in DOMAIN a |-> IF a[i] < lo THEN lo ELSE a[i]]
clip_max(a, hi) == [i \in DOMAIN a |-> IF a[i] > hi THEN hi ELSE a[i]]

\* step 4 of upload_image: the lower clamp first, then the upper clamp
clamp(a, lo, hi) ==
    LET b == IF Provided(lo) THEN clip_min(a, lo.v) ELSE a
    IN IF Provided(hi) THEN clip_max(b, hi.v) ELSE b

\* np.min and np.max of a non-empty array
ArrayMin(a) == CHOOSE m \in {a[i] : i \in DOMAIN a} : \A i \in DOMAIN a : m <= a[i]
ArrayMax(a) == CHOOSE m \in {a[i] : i \in DOMAIN a} : \A i \in DOMAIN a : m >= a[i]

\* round(x, 2): the nearest hundredth, i.e. the nearest multiple of 3 units
round2(t) == ((t + 1) \div 3) * 3

\* Faulty variant: the unlink sits after the try block, not in a finally.
cleanup_on_success_only(path, exc) ==
    IF exc = "none" /\ path = "exists" THEN "unlinked" ELSE path

\* finally: if os.path.exists(temp_path): os.unlink(temp_path)
cleanup(path, exc) == IF path = "exists" THEN "unlinked" ELSE path

\* what the framework answers for an exception leaving the handler
error_response(exc) ==
    IF exc = "HTTPException"
      THEN [status |-> 400, detail |-> "Thermal data extraction failed",
            minTemp |-> 0, maxTemp |-> 0, temperatures |-> <<>>]
      ELSE [status |-> 500, detail |-> "Internal Server Error",
            minTemp |-> 0, maxTemp |-> 0, temperatures |-> <<>>]

rejected(detail) ==
    [status |-> 400, detail |-> detail, minTemp |-> 0, maxTemp |-> 0,
     temperatures |-> <<>>]

InitSdk ==
    /\ caller = "upload_image"
    /\ upload \in SdkUploads
    /\ response = NoResponse
    /\ SdkIdle
    /\ pc = "upload_image"
    /\ latitude = None /\ longitude = None
    /\ zoom = 0 /\ width = 0 /\ height = 0
    /\ MapIdle
    /\ pin_arg = NoPinArg /\ probe = NoProbe

\* what no action of upload_image touches
sdk_frame == <<inputs, pin_arg, probe, upload, map_called, center, grid, loop,
               tail, map_img_b64, escaped, aborted_at, map_img>>

\* 1. basic validation: extension, then empty body
SdkValidate ==
    /\ pc = "upload_image"
    /\ IF ~sdk_supported_extension(upload.ext)
         THEN /\ response' = rejected("Invalid file type (expected JPEG)")
              /\ pc' = "Responded"
         ELSE IF upload.content = "empty"
           THEN /\ response' = rejected("Empty file")
                /\ pc' = "Responded"
           ELSE /\ pc' = "mkstemp"
                /\ UNCHANGED response
    /\ UNCHANGED <<sdk_frame, temp_path, thermal_np, pending>>

\* temp_fd, temp_path = tempfile.mkstemp(suffix=".jpg"), outside the try
SdkMkstemp ==
    /\ pc = "mkstemp"
    /\ \E created \in BOOLEAN :
          IF created
            THEN /\ temp_path' = "exists"
                 /\ pc' = "write"
                 /\ UNCHANGED <<response, pending>>
            ELSE /\ pending' = "OSError"
                 /\ response' = error_response("OSError")
                 /\ pc' = "Responded"
                 /\ UNCHANGED temp_path
    /\ UNCHANGED <<sdk_frame, thermal_np>>

\* with os.fdopen(temp_fd, "wb") as f: f.write(contents)
SdkWrite ==
    /\ pc = "write"
    /\ \E written \in BOOLEAN :
          IF written
            THEN pc' = "extract" /\ UNCHANGED pending
            ELSE pc' = "finally" /\ pending' = "OSError"
    /\ UNCHANGED <<sdk_frame, temp_path, thermal_np, response>>

\* 3. process_image and get_thermal_np; any exception becomes HTTP 400
SdkExtract ==
    /\ pc = "extract"
    /\ IF upload.content = "flir"
         THEN thermal_np' = upload.pixels /\ UNCHANGED pending
         ELSE pending' = "HTTPException" /\ UNCHANGED thermal_np
    /\ pc' = "finally"
    /\ UNCHANGED <<sdk_frame, temp_path, response>>

\* the finally block, then either the exception leaves or step 4 follows
SdkFinally ==
    /\ pc = "finally"
    /\ temp_path' = cleanup(temp_path, pending)
    /\ IF pending = "none"
         THEN pc' = "clamp" /\ UNCHANGED response
         ELSE pc' = "Responded" /\ response' = error_response(pending)
    /\ UNCHANGED <<sdk_frame, thermal_np, pending>>

\* 4. clamp, 5. the JSON response
SdkRespond ==
    /\ pc = "clamp"
    /\ thermal_np' = clamp(thermal_np, upload.min_temp, upload.max_temp)
    /\ response' =
         LET a == clamp(thermal_np, upload.min_temp, upload.max_temp)
         IN [status |-> 200, detail |-> "flir_sdk",
             minTemp |-> round2(ArrayMin(a)), maxTemp |-> round2(ArrayMax(a)),
             temperatures |-> a]
    /\ pc' = "Responded"
    /\ UNCHANGED <<sdk_frame, temp_path, pending>>

NextSdk ==
    \/ SdkValidate
    \/ SdkMkstemp
    \/ SdkWrite
    \/ SdkExtract
    \/ SdkFinally
    \/ SdkRespond

SpecSdk == InitSdk /\ [][NextSdk]_vars

\* ------------------------------------------------------------ vocabulary
\* composite_w, composite_h = tiles_x * tile_size, tiles_y * tile_size
composite_w == tiles_x * tile_size
composite_h == tiles_y * tile_size

Returned == pc \in {"Returned", "map_done", "Done"}

CropDone == box # NoBox

InsideCanvas(b) ==
    0 <= b.left /\ 0 <= b.top /\ b.right <= composite_w /\ b.bottom <= composite_h

MercatorValid(lat) ==
    lat.tag = "float" /\ -MercSteps <= lat.v /\ lat.v <= MercSteps

Cells == DOMAIN composite

CellRequested(c) == \E i \in DOMAIN requests : requests[i].tx = c[1] /\ requests[i].ty = c[2]

\* the stages whose Pillow call can raise
LibraryStages == {"Projected", "Composited", "Cropped", "Marked"}

\* the tile addresses the loop requests, and the crop box, as functions of
\* the arguments of generate_static_map_base64
grid_addresses(lat, lon, z, w, h) ==
    LET c == lat_lon_to_tile(lat, lon, z)
        sx == start_tile(c.x, tiles_needed(w))
        sy == start_tile(c.y, tiles_needed(h))
    IN {[x |-> wrap_tile_x(sx + i, z), y |-> sy + j] :
          <<i, j>> \in {d \in (0..(tiles_needed(w) - 1)) \X (0..(tiles_needed(h) - 1)) :
                          ~row_skipped(sy + d[2], z)}}

crop_of(lat, lon, z, w, h) ==
    LET c == lat_lon_to_tile(lat, lon, z)
        sx == start_tile(c.x, tiles_needed(w))
        sy == start_tile(c.y, tiles_needed(h))
    IN crop_box(pixel_pos(c.x, sx), pixel_pos(c.y, sy), w, h)

\* the longitude 360 * k degrees further east
turned(lon, k) == [lon EXCEPT !.v = lon.v + k * LonSteps]

Abs(i) == IF i < 0 THEN -i ELSE i

\* ------------------------------------------------------------------ claims

\* C1: for every center with a Mercator-valid latitude and any longitude,
\* every zoom, width and height, the crop box lies inside the assembled
\* canvas on every side.
C1_CropInsideCanvas == (CropDone /\ MercatorValid(latitude)) => InsideCanvas(box)

\* C2: whenever an image is returned it is exactly width x height pixels,
\* whatever tiles failed, wrapped or were skipped.
C2_OutputSize ==
    /\ encoded.tag = "uri" => (encoded.w = width /\ encoded.h = height)
    /\ map_img_b64.tag = "uri" => (map_img_b64.w = width /\ map_img_b64.h = height)

C2_Witness ==
    /\ pc = "Returned" /\ map_img_b64.tag = "uri"
    /\ failed # {}
    /\ \E c \in Cells : ~CellRequested(c)
    /\ \E i \in DOMAIN requests : requests[i].x # start_tile_x + requests[i].tx
    /\ ~InsideCanvas(box)

\* C3: when some (or all) tile fetches fail and no Pillow call raises, the
\* call still returns a data URI of an image with the marker drawn, and the
\* cells of the failed tiles keep the background fill.
C3_FailureTolerance ==
    (Returned /\ failed # {} /\ aborted_at \notin LibraryStages) =>
        /\ map_img_b64.tag = "uri"
        /\ marker.drawn
        /\ \A c \in failed : composite[c] = "bg"

C3_Witness ==
    /\ pc = "Returned" /\ map_img_b64.tag = "uri" /\ marker.drawn
    /\ Len(requests) > 1
    /\ failed = {<<requests[i].tx, requests[i].ty>> : i \in DOMAIN requests}

\* C4: a latitude outside the Mercator-valid range fails before any tile is
\* requested and never yields an image.
C4_InvalidLatitudeRejected ==
    (map_called /\ ~MercatorValid(latitude)) =>
        /\ requests = <<>>
        /\ encoded.tag # "uri"
        /\ map_img_b64.tag # "uri"

\* C5: a crop box that is not fully inside the canvas aborts the pipeline:
\* the Cropped, Marked and Encoded stages are never entered with it and no
\* image is returned.
C5_CanvasTooSmallAborts ==
    (CropDone /\ ~InsideCanvas(box)) =>
        /\ pc \notin {"Cropped", "Marked", "Encoded"}
        /\ map_img_b64.tag # "uri"

\* C6: every tile request has x = (start_tile_x + tx) mod 2^zoom in
\* [0, 2^zoom) and y in [0, 2^zoom); a cell whose row is outside that range
\* is never requested and stays background.
C6_RequestsInRange ==
    /\ \A i \in DOMAIN requests :
          /\ requests[i].x = (start_tile_x + requests[i].tx) % (2 ^ zoom)
          /\ 0 <= requests[i].x /\ requests[i].x < 2 ^ zoom
          /\ 0 <= requests[i].y /\ requests[i].y < 2 ^ zoom
          /\ requests[i].y = start_tile_y + requests[i].ty
          /\ requests[i].z = zoom
    /\ \A c \in Cells :
          (start_tile_y + c[2] < 0 \/ start_tile_y + c[2] >= 2 ^ zoom) =>
              (~CellRequested(c) /\ composite[c] = "bg")

C6_Witness ==
    /\ pc = "Composited"
    /\ \E i \in DOMAIN requests : start_tile_x + requests[i].tx < 0
    /\ \E i \in DOMAIN requests : start_tile_x + requests[i].tx >= 2 ^ zoom
    /\ \E c \in Cells : start_tile_y + c[2] >= 2 ^ zoom
    /\ \E c \in Cells : composite[c] = "tile"

\* C7: the marker is drawn on the canvas pixel of the target point:
\* left + width // 2 = pixel_x, top + height // 2 = pixel_y, and that pixel
\* is less than one pixel away from the projected coordinate.
C7_Centering ==
    marker.drawn =>
        /\ box.left + marker.cx = pixel_x
        /\ box.top + marker.cy = pixel_y
        /\ marker.cx = width \div 2 /\ marker.cy = height \div 2
        /\ Abs((start_tile_x * tile_size + pixel_x) * center.x.den
                 - center.x.num * tile_size) < center.x.den
        /\ Abs((start_tile_y * tile_size + pixel_y) * center.y.den
                 - center.y.num * tile_size) < center.y.den

C7_Witness ==
    /\ pc = "Returned" /\ map_img_b64.tag = "uri" /\ marker.drawn
    /\ MercatorValid(latitude)
    /\ (center.x.num * tile_size) % center.x.den # 0
    /\ (center.y.num * tile_size) % center.y.den # 0
    /\ center.x.num % center.x.den # 0

\* C8: generate_pdf calls the map generator for every measure whose latitude
\* and longitude are both provided, whatever their values.
C8_MapForProvidedCoordinates ==
    (caller = "generate_pdf" /\ pc # "generate_pdf") =>
        (map_called <=> (Provided(latitude) /\ Provided(longitude)))

\* C9: no failure of the map pipeline reaches the caller as an exception:
\* the generator returns None, and the report shows 'Map unavailable'.
C9_MapFailureTolerated ==
    /\ escaped = "none"
    /\ pc # "Failed"
    /\ (Returned /\ aborted_at # "none") => map_img_b64.tag = "None"
    /\ (pc = "Done" /\ map_img_b64.tag = "None") => map_img = "Map unavailable"

C9_Witness ==
    /\ pc = "Done"
    /\ aborted_at = "Marked"
    /\ map_img = "Map unavailable"

\* C10: two requests whose longitudes differ by a multiple of 360 degrees
\* issue the same tile addresses and compute the same crop box.
C10_LongitudePeriodic ==
    CropDone =>
        \A k \in {-1, 1} :
            /\ crop_of(latitude, turned(longitude, k), zoom, width, height) = box
            /\ grid_addresses(latitude, turned(longitude, k), zoom, width, height)
                 = {[x |-> requests[i].x, y |-> requests[i].y] : i \in DOMAIN requests}

\* ------------------------------------------------- vocabulary of the loop
\* position of a cell in the order of the two nested for loops
CellOrder(c) == c[1] * tiles_y + c[2]

PoleCell(c) == start_tile_y + c[2] < 0 \/ start_tile_y + c[2] >= 2 ^ zoom

AfterLoop == pc \in {"Composited", "Cropped", "Marked", "Encoded"}

\* the pcs of one run of generate_static_map_base64
MapPcs == {"Requested", "Projected", "Fetching", "Composited", "Cropped",
           "Marked", "Encoded"}

\* consecutive stages; "Fetching" is the compositing in progress
StageSteps ==
    {<<"Requested", "Projected">>, <<"Projected", "Fetching">>,
     <<"Fetching", "Composited">>, <<"Composited", "Cropped">>,
     <<"Cropped", "Marked">>, <<"Marked", "Encoded">>}

\* C13 (as stated): a fetch is started without waiting for the fetches
\* already started: while a fetch is pending the loop can go on to the next
\* cell.
C13_DispatchWithoutWaiting ==
    (pc = "Fetching" /\ inflight # {}) => (ENABLED IssueRequest \/ ENABLED SkipTile)

\* C13 (amended): the fetches are sequential: at most one is in flight, and
\* while it is pending the loop neither starts nor skips another cell.
C13_SequentialFetch ==
    /\ Cardinality(inflight) <= 1
    /\ inflight # {} =>
          (pc = "Fetching" /\ ~ENABLED IssueRequest /\ ~ENABLED SkipTile)

C13_Witness ==
    /\ inflight # {}
    /\ Len(requests) > 1
    /\ \E c \in Cells : CellOrder(c) > CellOrder(<<tx, ty>>) /\ ~PoleCell(c)

\* C14 (as stated): once a timeout has occurred no further tile request is
\* issued and no further tile is pasted.
C14_SingleGridTimeout ==
    [][timed_out => (requests' = requests /\ composite' = composite)]_vars

\* C14 (amended): the timeout is per request: a request that times out is a
\* failed tile, it does not abort the call, and the loop still requests
\* every remaining cell that is not a pole row.
C14_TimeoutPerRequest ==
    /\ timed_out => failed # {}
    /\ timed_out => aborted_at # "Fetching"
    /\ (timed_out /\ AfterLoop) =>
          \A c \in Cells : ~PoleCell(c) => CellRequested(c)

C14_Witness ==
    /\ pc = "Composited" /\ timed_out
    /\ Len(requests) > 2
    /\ failed = {<<requests[1].tx, requests[1].ty>>}
    /\ Cardinality(pastes) = Len(requests) - 1

\* C15: no tile address (zoom, x, y) is requested more than once in a call.
C15_NoDuplicateFetch ==
    \A i, j \in DOMAIN requests :
        i # j => <<requests[i].z, requests[i].x, requests[i].y>>
                   # <<requests[j].z, requests[j].x, requests[j].y>>

\* C16: the crop, the marker, the encoding and the return happen only when
\* no fetch is pending and every request has resolved (pasted or failed).
C16_CropAfterAllResolved ==
    (AfterLoop \/ Returned) =>
        /\ inflight = {}
        /\ \A i \in DOMAIN requests :
              \/ <<requests[i].tx, requests[i].ty>> \in failed
              \/ composite[<<requests[i].tx, requests[i].ty>>] = "tile"

C16_Witness ==
    /\ pc = "Cropped"
    /\ Len(requests) > 2
    /\ failed # {}
    /\ pastes # {}

\* C17: a fetched tile of cell (tx, ty) is pasted at (tx * tile_size,
\* ty * tile_size), no two pastes share an offset, and the canvas depends
\* only on which cells were fetched successfully.
C17_DeterministicPaste ==
    /\ \A p \in pastes :
          /\ p.off = <<p.tx * tile_size, p.ty * tile_size>>
          /\ p.x = (start_tile_x + p.tx) % (2 ^ zoom)
          /\ p.off[2] = (p.y - start_tile_y) * tile_size
    /\ \A p, q \in pastes : p.off = q.off => p = q
    /\ \A c \in Cells :
          composite[c] = "tile" <=>
              \E p \in pastes : p.off = <<c[1] * tile_size, c[2] * tile_size>>
    /\ AfterLoop =>
          composite = [c \in Cells |->
                         IF CellRequested(c) /\ c \notin failed THEN "tile" ELSE "bg"]

C17_Witness ==
    /\ pc = "Composited"
    /\ Cardinality(pastes) > 1
    /\ failed # {}
    /\ \E p \in pastes : p.x # start_tile_x + p.tx
    /\ \E p \in pastes : \E c \in failed : CellOrder(c) < CellOrder(<<p.tx, p.ty>>)

\* C18: a failed or skipped tile leaves the canvas as it is: the canvas
\* keeps the size it was created with, failed and skipped cells keep the
\* background, and what was pasted before stays.
C18_FailedTileLeavesCanvas ==
    /\ []((pc = "Fetching" \/ AfterLoop) =>
            /\ composite_size = [w |-> tiles_x * tile_size, h |-> tiles_y * tile_size]
            /\ \A c \in Cells : (c \in failed \/ PoleCell(c)) => composite[c] = "bg")
    /\ [][(failed' # failed \/ (requests' = requests /\ <<tx, ty>>' # <<tx, ty>> /\ inflight = {}))
            => (composite' = composite /\ pastes' = pastes
                /\ composite_size' = composite_size)]_vars
    /\ [][(pc = "Fetching" \/ AfterLoop) =>
            /\ composite_size' = composite_size
            /\ \A c \in Cells : composite[c] = "tile" => composite'[c] = "tile"]_vars

C18_Witness ==
    /\ pc = "Composited"
    /\ \E c \in Cells : PoleCell(c)
    /\ \E p \in pastes : \E c \in failed : CellOrder(c) > CellOrder(<<p.tx, p.ty>>)

\* C19: a run goes through Requested, Projected, Composited, Cropped,
\* Marked, Encoded in that order, one stage at a time; it returns a data URI
\* only from Encoded, and otherwise returns None from the stage that raised.
C19_StageOrder ==
    /\ [][(pc \in MapPcs /\ pc' # pc) =>
            \/ <<pc, pc'>> \in StageSteps
            \/ /\ pc' = ReturnPc
               /\ \/ pc = "Encoded" /\ map_img_b64' = encoded /\ encoded.tag = "uri"
                  \/ pc # "Encoded" /\ map_img_b64'.tag = "None" /\ aborted_at' = pc]_vars
    /\ [](map_img_b64.tag = "uri" =>
            (aborted_at = "none" /\ CropDone /\ marker.drawn /\ map_img_b64 = encoded))

C19_Witness ==
    /\ pc = "Done"
    /\ map_img_b64.tag = "uri"
    /\ failed # {}

\* width and height of a bounding box, and twice its center
BoxW(b) == b.x1 - b.x0
BoxH(b) == b.y1 - b.y0
BoxMid2(b) == <<b.x0 + b.x1, b.y0 + b.y1>>
BoxInside(a, b) == a.x0 >= b.x0 /\ a.x1 <= b.x1 /\ a.y0 >= b.y0 /\ a.y1 <= b.y1

\* C20: every dimension of the pin comes from size alone (half-width
\* size // 2, head height 2 * size // 3, white disk radius size // 5, dot
\* radius size // 8); for every size >= 1 the dot is concentric with and
\* inside the white disk, and the disk lies within the extent of the head.
C20_PinProportions ==
    pc = "Drawn" =>
        LET s == pin_arg.size
        IN /\ BoxW(pin.head) = 2 * (s \div 2)
           /\ BoxH(pin.head) = (2 * s) \div 3
           /\ BoxW(pin.disk) = 2 * (s \div 5) /\ BoxH(pin.disk) = 2 * (s \div 5)
           /\ BoxW(pin.dot) = 2 * (s \div 8) /\ BoxH(pin.dot) = 2 * (s \div 8)
           /\ BoxMid2(pin.head)[1] = 2 * pin_arg.cx
           /\ pin.head.y0 = pin_arg.cy - s
           /\ BoxMid2(pin.dot) = BoxMid2(pin.disk)
           /\ BoxInside(pin.dot, pin.disk)
           /\ BoxInside(pin.disk, pin.head)

\* a pin whose dot is strictly smaller than its disk has been drawn, at the
\* size the map uses and at the smallest size
C20_Witness ==
    /\ pc = "Drawn"
    /\ pin_arg.size = PinSize
    /\ BoxW(pin.dot) > 0 /\ BoxW(pin.dot) < BoxW(pin.disk)

C11_ThermalContract ==
    pc = "Responded" =>
        /\ (supported_extension(upload.ext) /\ upload.content = "image") =>
              /\ response.status = 200
              /\ Provided(upload.max_temp) =>
                    response.scale = <<upload.min_temp, upload.max_temp>>
        /\ response.status = 400 =>
              (~supported_extension(upload.ext) \/ upload.content = "empty")
        /\ response.status = 500 => upload.content = "garbage"

\* C21: in the thermal-SDK upload, a supplied min_temp is a lower bound of
\* every returned temperature and of the reported minTemp, and a supplied
\* max_temp an upper bound of every returned temperature and of the reported
\* maxTemp, for every combination of the two.
C21_ClampBounds ==
    (pc = "Responded" /\ response.status = 200) =>
        /\ Provided(upload.min_temp) =>
              /\ \A i \in DOMAIN response.temperatures :
                    response.temperatures[i] >= upload.min_temp.v
              /\ response.minTemp >= upload.min_temp.v
        /\ Provided(upload.max_temp) =>
              /\ \A i \in DOMAIN response.temperatures :
                    response.temperatures[i] <= upload.max_temp.v
              /\ response.maxTemp <= upload.max_temp.v

\* the request was turned away by the validation of step 1
SdkRejected == ~sdk_supported_extension(upload.ext) \/ upload.content = "empty"

\* C22: the thermal-SDK upload leaves no temp file behind.  Once the file
\* exists it is deleted before step 4 and before any response, whether the
\* extraction succeeded or failed; a request rejected for its extension or
\* for an empty body never creates one.
C22_NoTempFileLeft ==
    /\ (pc \in {"clamp", "Responded"} \/ response.status # 0) =>
          temp_path # "exists"
    /\ SdkRejected => temp_path = "absent"

\* the extraction failed, the file had been created, and HTTP 400 is answered
C22_Witness ==
    /\ pc = "Responded"
    /\ response.status = 400
    /\ response.detail = "Thermal data extraction failed"
    /\ temp_path = "unlinked"

====
